---------------------------- MODULE Spec2Model ----------------------------
(***************************************************************************)
(* Itinerary search of the DAA_project repository.                         *)
(*                                                                         *)
(*   FlightNetwork::getTopKPaths   src/backend/algo.cpp   (by price)       *)
(*   JsonDB::find_smart_routes     src/jsondb.cpp         (by duration,    *)
(*                                                         date aware)     *)
(*                                                                         *)
(* Spec: one behaviour is one call of one of the two searches.  The call   *)
(* action draws the graph and the query; every other action is one         *)
(* iteration of the search's while loop (pop, goal check, pruning,         *)
(* expansion) or its return.  TwinSpec runs two equal calls side by side.  *)
(* ParseSpec is a call of JsonDB::parse_duration_string.  DbSpec is the    *)
(* flight store behind the multithreaded server: the request threads and   *)
(* the operations of JsonDB they call under db_mutex.  StoreSpec is the    *)
(* sequence of mutations of the store the admin routes make.               *)
(***************************************************************************)
EXTENDS Integers, Sequences, FiniteSets, TLC

VARIABLES
    algo,      \* the search that was called: "topk", "smart", or "none" yet
    query,     \* the arguments of the call
    adjList,   \* FlightNetwork::adjList  (algo.cpp:57)
    adj_list,  \* JsonDB::adj_list        (jsondb.h:32)
    run,       \* the locals of the call: pq, results, visit counters, pc
    twin,      \* the locals of a second call with the same arguments
    data,      \* JsonDB::data: "airports" and "flights"  (jsondb.h:28)
    file,      \* the contents of the file save() writes (jsondb.cpp:18-21)
    db_mutex,  \* JsonDB::db_mutex: the thread that holds it, or "free"
    threads,   \* the request each server thread is handling, and where
    parse      \* a call of parse_duration_string: argument, pc, return value

vars == <<algo, query, adjList, adj_list, run, twin, data, file, db_mutex, threads, parse>>

\* the state of the flight store and of the calls in its unit
others == <<data, file, db_mutex, threads, parse>>

---------------------------------------------------------------------------
(* Bounds of the model *)

\* k ranges over -1, 0 and 1..MaxK
MaxK == 2
\* minLayoverMins ranges over 0..MaxLayover
MaxLayover == 2
\* a duration string holds at most MaxDurLen characters
MaxDurLen == 5
\* a graph holds at most MaxFlights legs of the pool
MaxFlights == 4
\* a fan graph holds up to MaxFan parallel legs X -> Z
MaxFan == 7
\* a flight is sent for adding while the store holds fewer than MaxStore
MaxStore == 3

\* the margin of the revisit cap, "k + 5"
RevisitMargin == 5

Nodes == {"X", "Y", "Z", "W"}

\* the request threads of the server
Threads == {"t1", "t2"}

KValues == {-1, 0} \cup (1..MaxK)

---------------------------------------------------------------------------
(* std::priority_queue<T, vector<T>, greater<T>>: a binary heap kept in a  *)
(* vector by std::push_heap / std::pop_heap (libstdc++ bits/stl_heap.h).   *)
(* The heap is the sequence h, C++ index i is h[i + 1].                    *)

\* the accumulated weight the comparator reads
Weight(s) ==
    IF "currentCost" \in DOMAIN s THEN s.currentCost ELSE s.total_minutes

GreaterReversed(a, b) == Weight(a) < Weight(b)

\* SearchState::operator> and PathState::operator>
Greater(a, b) == Weight(a) > Weight(b)

RECURSIVE PushHeapAt(_, _, _)
\* std::__push_heap with topIndex 0: move the hole up while the parent
\* compares greater than the value
PushHeapAt(h, hole, value) ==
    IF hole > 0 /\ Greater(h[((hole - 1) \div 2) + 1], value)
    THEN PushHeapAt([h EXCEPT ![hole + 1] = h[((hole - 1) \div 2) + 1]],
                    (hole - 1) \div 2, value)
    ELSE [h EXCEPT ![hole + 1] = value]

\* pq.push(v): push_back, then std::push_heap
PqPush(h, value) == PushHeapAt(Append(h, value), Len(h), value)

RECURSIVE AdjustDown(_, _, _)
\* the while loop of std::__adjust_heap: the hole moves down to the child
\* that does not compare greater (the right one on a tie)
AdjustDown(h, hole, len) ==
    IF hole < (len - 1) \div 2
    THEN LET right == 2 * (hole + 1)
             child == IF Greater(h[right + 1], h[right]) THEN right - 1 ELSE right
         IN  AdjustDown([h EXCEPT ![hole + 1] = h[child + 1]], child, len)
    ELSE <<h, hole>>

\* std::__adjust_heap(first, 0, len, value)
AdjustHeap(h, len, value) ==
    LET d     == AdjustDown(h, 0, len)
        h1    == d[1]
        hole1 == d[2]
        only  == (len % 2 = 0) /\ hole1 = (len - 2) \div 2
        h2    == IF only
                 THEN [h1 EXCEPT ![hole1 + 1] = h1[2 * (hole1 + 1)]]
                 ELSE h1
        hole2 == IF only THEN 2 * (hole1 + 1) - 1 ELSE hole1
    IN  PushHeapAt(h2, hole2, value)

\* pq.pop(): std::pop_heap, then pop_back
PqPop(h) ==
    IF Len(h) <= 1 THEN <<>>
    ELSE AdjustHeap(SubSeq(h, 1, Len(h) - 1), Len(h) - 1, h[Len(h)])

\* pq.top()
PqTop(h) == h[1]

---------------------------------------------------------------------------
(* Comparisons of a container size (size_t) with the int k: k is converted *)
(* to size_t, so a negative k compares as a value above every size.        *)

SizeGEStrict(n, k) == IF k < 0 THEN FALSE ELSE n > k

\* results.size() >= k   (algo.cpp:105)
SizeGE(n, k) == IF k < 0 THEN FALSE ELSE n >= k

\* results.size() < k    (jsondb.cpp:95)
SizeLT(n, k) == IF k < 0 THEN TRUE ELSE n < k

---------------------------------------------------------------------------
(* FlightNetwork (algo.cpp) *)

\* adjList[u].push_back(f) for std::map: the bucket is created when missing
addFlight(adj, id, u, v, cost, dep, duration) ==
    LET f == [id |-> id, from |-> u, to |-> v, cost |-> cost,
              depTime |-> dep, arrTime |-> dep + duration]
    IN  IF u \in DOMAIN adj
        THEN [adj EXCEPT ![u] = Append(@, f)]
        ELSE [n \in DOMAIN adj \cup {u} |-> IF n = u THEN <<f>> ELSE adj[n]]

\* the empty std::map
EmptyAdj == [n \in {} |-> <<>>]

\* the legs a graph is drawn from, as arguments of addFlight:
\* <<id, u, v, cost, dep, duration>>
FlightPool == <<
    <<"F1",  "X", "Y", 3, 0, 1>>,   \* direct leg
    <<"F2",  "X", "Y", 3, 2, 1>>,   \* parallel direct leg of equal price
    <<"F3",  "X", "Z", 1, 0, 2>>,   \* first leg of the two-leg alternative
    <<"F4",  "Z", "Y", 1, 5, 1>>,   \* leaves 3 minutes after F3 arrives
    <<"F5",  "Z", "Y", 0, 3, 1>>,   \* leaves 1 minute after F3 arrives
    <<"F6",  "Z", "Y", 2, 1, 1>>,   \* leaves before F3 arrives
    <<"F7",  "Z", "X", 0, 5, 1>>,   \* back to the source
    <<"F8",  "Z", "W", 1, 4, 1>>,
    <<"F9",  "W", "Z", 0, 6, 1>>,   \* cycle Z -> W -> Z
    <<"F10", "W", "Y", 0, 7, 1>>,
    <<"F11", "X", "X", 0, 0, 1>>,   \* self loop at the source
    <<"F12", "Z", "Z", 0, 3, 1>>,   \* self loop at an intermediate node
    <<"F13", "X", "W", 2, 1, 1>>,
    <<"F14", "Y", "Z", 0, 5, 0>>    \* a leg leaving the destination
>>

FanIds == <<"P1", "P2", "P3", "P4", "P5", "P6", "P7", "P8", "P9">>

\* the i-th of the parallel legs X -> Z: the dearer the leg, the earlier it
\* arrives; the leg MaxFan arrives at minute 1
FanLeg(i) == <<FanIds[i], "X", "Z", i, MaxFan - i, 1>>

\* the continuations of a fan
FanTail == <<
    <<"T1", "Z", "Y", 1, 1, 1>>,           \* only the leg MaxFan connects to it
    <<"T2", "Z", "W", 1, MaxFan + 2, 1>>   \* every fan leg connects to it
>>

RECURSIVE PickSeq(_, _, _)
\* the members of pool with an index in S, in pool order, from index i on
PickSeq(pool, S, i) ==
    IF i > Len(pool) THEN <<>>
    ELSE IF i \in S THEN <<pool[i]>> \o PickSeq(pool, S, i + 1)
         ELSE PickSeq(pool, S, i + 1)

\* the sequences of addFlight calls that build the graphs of the model
FlightLists ==
    { PickSeq(FlightPool, S, 1) :
        S \in { T \in SUBSET (1..Len(FlightPool)) : Cardinality(T) <= MaxFlights } }
    \cup
    { [i \in 1..n |-> FanLeg(i)] \o PickSeq(FanTail, S, 1) :
        n \in 1..MaxFan, S \in SUBSET (1..Len(FanTail)) }

RECURSIVE BuildNetwork(_, _)
\* the addFlight calls of main, in order (algo.cpp:191-218)
BuildNetwork(adj, calls) ==
    IF calls = <<>> THEN adj
    ELSE LET c == Head(calls)
         IN  BuildNetwork(addFlight(adj, c[1], c[2], c[3], c[4], c[5], c[6]),
                          Tail(calls))

---------------------------------------------------------------------------
(* FlightNetwork::getTopKPaths (algo.cpp:73-159) *)

\* pq.push({0, startNode, -1, {}, {startNode}}) and the empty locals
TopKStart(q) ==
    [pq          |-> PqPush(<<>>, [currentCost    |-> 0,
                                   currentAirport |-> q.startNode,
                                   arrivalTime    |-> -1,
                                   pathHistory    |-> <<>>,
                                   visitedNodes   |-> <<q.startNode>>]),
     results     |-> <<>>,
     visitCounts |-> [n \in Nodes |-> 0],
     pc          |-> "loop"]

GoalNever(u, target) == FALSE

GoalAny(u, target) == TRUE

\* the goal checks u == endNode (algo.cpp:96) and u == dst (jsondb.cpp:102)
GoalReached(u, target) == u = target

CycleOnlyLast(visitedNodes, to) == visitedNodes[Len(visitedNodes)] = to

\* 1. CYCLE CHECK: flight.to is among current.visitedNodes
CycleDetected(visitedNodes, to) ==
    \E i \in 1..Len(visitedNodes) : visitedNodes[i] = to

TimeValidNoLayover(current, flight, minLayoverMins) ==
    IF current.arrivalTime = -1 THEN TRUE
    ELSE flight.depTime >= current.arrivalTime

\* 2. TIME CONSTRAINT: first flight, or departure >= arrival + layover
TimeValid(current, flight, minLayoverMins) ==
    IF current.arrivalTime = -1 THEN TRUE
    ELSE flight.depTime >= current.arrivalTime + minLayoverMins

NextStateLegCost(current, u, flight) ==
    [currentCost    |-> flight.cost,
     currentAirport |-> flight.to,
     arrivalTime    |-> flight.arrTime,
     pathHistory    |-> Append(current.pathHistory,
                               [id |-> flight.id, from |-> u, to |-> flight.to]),
     visitedNodes   |-> Append(current.visitedNodes, flight.to)]

NextStateKeepArrival(current, u, flight) ==
    [currentCost    |-> current.currentCost + flight.cost,
     currentAirport |-> flight.to,
     arrivalTime    |-> current.arrivalTime,
     pathHistory    |-> Append(current.pathHistory,
                               [id |-> flight.id, from |-> u, to |-> flight.to]),
     visitedNodes   |-> Append(current.visitedNodes, flight.to)]

NextStateStaysPut(current, u, flight) ==
    [currentCost    |-> current.currentCost + flight.cost,
     currentAirport |-> u,
     arrivalTime    |-> flight.arrTime,
     pathHistory    |-> Append(current.pathHistory,
                               [id |-> flight.id, from |-> u, to |-> flight.to]),
     visitedNodes   |-> Append(current.visitedNodes, flight.to)]

\* the child state; the string flight.id + " (" + u + "->" + flight.to + ")"
\* is kept as its three parts
NextState(current, u, flight) ==
    [currentCost    |-> current.currentCost + flight.cost,
     currentAirport |-> flight.to,
     arrivalTime    |-> flight.arrTime,
     pathHistory    |-> Append(current.pathHistory,
                               [id |-> flight.id, from |-> u, to |-> flight.to]),
     visitedNodes   |-> Append(current.visitedNodes, flight.to)]

BucketOrdersAny(bucket) ==
    {bucket, [i \in 1..Len(bucket) |-> bucket[Len(bucket) + 1 - i]]}

\* the orders in which a range-for enumerates a bucket (a std::vector):
\* index order, and no other
BucketOrders(bucket) == {bucket}

RECURSIVE TopKPushNeighbors(_, _, _, _)
\* the for loop over adjList[u] (algo.cpp:119-154)
TopKPushNeighbors(pq, current, flights, minLayoverMins) ==
    IF flights = <<>> THEN pq
    ELSE LET flight == Head(flights)
             ok     == /\ ~CycleDetected(current.visitedNodes, flight.to)
                       /\ TimeValid(current, flight, minLayoverMins)
         IN  TopKPushNeighbors(
                 IF ok THEN PqPush(pq, NextState(current, current.currentAirport, flight))
                       ELSE pq,
                 current, Tail(flights), minLayoverMins)

FindInsertsBucket(adj, u) ==
    IF u \in DOMAIN adj THEN adj
    ELSE [n \in DOMAIN adj \cup {u} |-> IF n = u THEN <<>> ELSE adj[n]]

\* the adjacency map after the lookup of u: find() inserts nothing, and
\* operator[] is only applied to a key find() has found (algo.cpp:118-119,
\* jsondb.cpp:146-147)
AfterFind(adj, u) == adj

\* adjList.find(u) != adjList.end() ? adjList[u] : nothing
TopKBucket(adj, u) == IF u \in DOMAIN adj THEN adj[u] ELSE <<>>

RevisitCapOff(count, k) == FALSE

\* PRUNING: if (visitCounts[u] > k + 5) continue, on the incremented counter
RevisitCapExceeded(count, k) == count > k + RevisitMargin

TopKGoalAndExpand(s, t) ==
    /\ algo = "topk"
    /\ s.pc = "loop"
    /\ s.pq # <<>>
    /\ LET current == PqTop(s.pq)
           res     == [totalCost        |-> current.currentCost,
                       arrivalTime      |-> current.arrivalTime,
                       routeDescription |-> current.pathHistory]
       IN  /\ GoalReached(current.currentAirport, query.endNode)
           /\ t = [s EXCEPT !.pq      = TopKPushNeighbors(PqPop(s.pq), current,
                                            TopKBucket(adjList, current.currentAirport),
                                            query.minLayoverMins),
                            !.results = Append(s.results, res),
                            !.pc      = IF SizeGE(Len(s.results) + 1, query.k)
                                        THEN "done" ELSE "loop"]

\* GOAL CHECK taken: the popped state is appended to results; the call
\* returns when results.size() >= k
TopKGoalStep(s, t) ==
    /\ algo = "topk"
    /\ s.pc = "loop"
    /\ s.pq # <<>>
    /\ LET current == PqTop(s.pq)
           res     == [totalCost        |-> current.currentCost,
                       arrivalTime      |-> current.arrivalTime,
                       routeDescription |-> current.pathHistory]
       IN  /\ GoalReached(current.currentAirport, query.endNode)
           /\ t = [s EXCEPT !.pq      = PqPop(s.pq),
                            !.results = Append(s.results, res),
                            !.pc      = IF SizeGE(Len(s.results) + 1, query.k)
                                        THEN "done" ELSE "loop"]

\* PRUNING taken: visitCounts[u]++ and the state is dropped
TopKPruneStep(s, t) ==
    /\ algo = "topk"
    /\ s.pc = "loop"
    /\ s.pq # <<>>
    /\ LET current == PqTop(s.pq)
           u       == current.currentAirport
       IN  /\ ~GoalReached(u, query.endNode)
           /\ RevisitCapExceeded(s.visitCounts[u] + 1, query.k)
           /\ t = [s EXCEPT !.pq = PqPop(s.pq),
                            !.visitCounts[u] = @ + 1]

\* EXPAND NEIGHBORS: visitCounts[u]++ and every admissible leg is pushed
TopKExpandStep(s, t) ==
    /\ algo = "topk"
    /\ s.pc = "loop"
    /\ s.pq # <<>>
    /\ LET current == PqTop(s.pq)
           u       == current.currentAirport
       IN  /\ ~GoalReached(u, query.endNode)
           /\ ~RevisitCapExceeded(s.visitCounts[u] + 1, query.k)
           /\ \E flights \in BucketOrders(TopKBucket(adjList, u)) :
                 t = [s EXCEPT !.pq = TopKPushNeighbors(PqPop(s.pq), current,
                                                        flights, query.minLayoverMins),
                               !.visitCounts[u] = @ + 1]

\* the queue is empty: return results (algo.cpp:158)
TopKReturnStep(s, t) ==
    /\ algo = "topk"
    /\ s.pc = "loop"
    /\ s.pq = <<>>
    /\ t = [s EXCEPT !.pc = "done"]

\* the calls getTopKPaths("X", endNode, k, minLayoverMins)
TopKQueries ==
    [startNode : {"X"}, endNode : {"X", "Y", "Z"}, k : KValues,
     minLayoverMins : 0..MaxLayover]

\* main builds the network and calls getTopKPaths (algo.cpp:183-233)
TopKCall ==
    /\ run.pc = "idle"
    /\ algo' = "topk"
    /\ query' \in TopKQueries
    /\ adjList' \in { BuildNetwork(EmptyAdj, calls) : calls \in FlightLists }
    /\ adj_list' = adj_list
    /\ run' = TopKStart(query')
    /\ twin' = run'
    /\ UNCHANGED others

TopKGoal   == TopKGoalStep(run, run')   /\ UNCHANGED <<algo, query, adjList, adj_list, twin, others>>
TopKPrune  == TopKPruneStep(run, run')  /\ UNCHANGED <<algo, query, adjList, adj_list, twin, others>>
TopKExpand ==
    /\ TopKExpandStep(run, run')
    /\ adjList' = AfterFind(adjList, PqTop(run.pq).currentAirport)
    /\ UNCHANGED <<algo, query, adj_list, twin, others>>
TopKReturn == TopKReturnStep(run, run') /\ UNCHANGED <<algo, query, adjList, adj_list, twin, others>>

---------------------------------------------------------------------------
(* Strings of the flight store.  A clock time or a duration is the         *)
(* sequence of its characters; a clock character is its rank in the        *)
(* order '0' < ... < '9' < ':' of the character set.                       *)

\* sprintf(time_buf, "%02d:%02d", hour, min) (jsondb.cpp:275)
Clock(hour, min) == <<hour \div 10, hour % 10, 10, min \div 10, min % 10>>

RECURSIVE StrLess(_, _)
\* std::string operator<: lexicographic, a proper prefix is smaller
StrLess(a, b) ==
    IF b = <<>> THEN FALSE
    ELSE IF a = <<>> THEN TRUE
    ELSE IF a[1] < b[1] THEN TRUE
    ELSE IF a[1] > b[1] THEN FALSE
    ELSE StrLess(Tail(a), Tail(b))

DigitChars == <<"0", "1", "2", "3", "4", "5", "6", "7", "8", "9">>

IsDigit(c) == \E i \in 1..10 : DigitChars[i] = c

DigitVal(c) == (CHOOSE i \in 1..10 : DigitChars[i] = c) - 1

\* std::string::npos
npos == -1

\* dur.find(c): the first position of c, from 0, or npos
Find(str, c) ==
    IF \E i \in 1..Len(str) : str[i] = c
    THEN (CHOOSE i \in 1..Len(str) :
             str[i] = c /\ \A j \in 1..(i - 1) : str[j] # c) - 1
    ELSE npos

RECURSIVE DigitsValue(_, _)
\* the value of the leading digits of str, after the digits read so far
DigitsValue(str, acc) ==
    IF str # <<>> /\ IsDigit(str[1])
    THEN DigitsValue(Tail(str), 10 * acc + DigitVal(str[1]))
    ELSE acc

RECURSIVE SkipSpaces(_)
SkipSpaces(str) ==
    IF str # <<>> /\ str[1] = " " THEN SkipSpaces(Tail(str)) ELSE str

\* std::stoi: leading blanks, an optional sign, then digits up to the first
\* other character; [ok |-> FALSE] is std::invalid_argument (no digit)
Stoi(str) ==
    LET t    == SkipSpaces(str)
        neg  == t # <<>> /\ t[1] = "-"
        body == IF t # <<>> /\ t[1] \in {"-", "+"} THEN Tail(t) ELSE t
    IN  IF body # <<>> /\ IsDigit(body[1])
        THEN [ok |-> TRUE,
              val |-> IF neg THEN 0 - DigitsValue(body, 0) ELSE DigitsValue(body, 0)]
        ELSE [ok |-> FALSE, val |-> 0]

\* dur.substr(pos, count); count is a size_t, so a negative difference is
\* a count beyond the end; [ok |-> FALSE] is std::out_of_range
Substr(str, pos, count) ==
    IF pos > Len(str) THEN [ok |-> FALSE, val |-> <<>>]
    ELSE [ok |-> TRUE,
          val |-> IF count < 0 \/ pos + count > Len(str)
                  THEN SubSeq(str, pos + 1, Len(str))
                  ELSE SubSeq(str, pos + 1, pos + count)]

\* JsonDB::parse_duration_string (jsondb.cpp:23-42)
parse_duration_string(dur) ==
    LET h_pos     == Find(dur, "h")
        m_pos     == Find(dur, "m")
        space_pos == Find(dur, " ")
        hours     == Stoi(Substr(dur, 0, h_pos).val)
        minsStr   == Substr(dur, space_pos + 1, m_pos - space_pos - 1)
        mins      == Stoi(minsStr.val)
    IN  IF h_pos = npos THEN 0
        ELSE IF ~hours.ok THEN 60
        ELSE IF space_pos # npos /\ m_pos # npos
             THEN IF minsStr.ok /\ mins.ok THEN hours.val * 60 + mins.val ELSE 60
             ELSE hours.val * 60

---------------------------------------------------------------------------
(* JsonDB::build_graph (jsondb.cpp:45-64) *)

RECURSIVE build_graph(_, _)
\* the loop over data["flights"]: an Edge per flight, appended to the
\* bucket of its from_code
build_graph(adj, flights) ==
    IF flights = <<>> THEN adj
    ELSE LET f == Head(flights)
             e == [destination    |-> f.to_code,
                   flight_id      |-> f.id,
                   date           |-> f.date,
                   dep_time       |-> f.departure,
                   arr_time       |-> f.arrival,
                   price          |-> f.price,
                   airline        |-> f.airline,
                   weight_minutes |-> parse_duration_string(f.duration)]
             u == f.from_code
         IN  build_graph(
                 IF u \in DOMAIN adj
                 THEN [adj EXCEPT ![u] = Append(@, e)]
                 ELSE [n \in DOMAIN adj \cup {u} |-> IF n = u THEN <<e>> ELSE adj[n]],
                 Tail(flights))

\* a record of data["flights"]
FlightJson(id, from, to, date, dep, arr, dur, price) ==
    [id |-> id, airline |-> "IndiGo", from_code |-> from, to_code |-> to,
     date |-> date, departure |-> dep, arrival |-> arr, duration |-> dur,
     price |-> price]

Dur_3h00 == <<"3", "h", " ", "0", "0", "m">>
Dur_1h00 == <<"1", "h", " ", "0", "0", "m">>
Dur_0h30 == <<"0", "h", " ", "3", "0", "m">>
Dur_0h00 == <<"0", "h", " ", "0", "0", "m">>
\* no hour marker
Dur_90m  == <<"9", "0", "m">>
\* no number before the hour marker
Dur_bad  == <<"x", "h", " ", "5", "m">>

\* the flights a store is drawn from
StorePool == <<
    FlightJson("S1",  "X", "Y", "2025-12-11", Clock(6, 0),  Clock(9, 0),  Dur_3h00, 5000),
    FlightJson("S2",  "X", "Y", "2025-12-11", Clock(7, 0),  Clock(10, 0), Dur_3h00, 4000),
    FlightJson("S3",  "X", "Z", "2025-12-11", Clock(6, 0),  Clock(7, 0),  Dur_1h00, 3000),
    FlightJson("S4",  "Z", "Y", "2025-12-11", Clock(8, 0),  Clock(9, 0),  Dur_1h00, 3000),
    FlightJson("S5",  "Z", "Y", "2025-12-12", Clock(8, 0),  Clock(9, 0),  Dur_0h30, 3000),
    FlightJson("S6",  "Z", "Y", "2025-12-11", Clock(6, 30), Clock(7, 30), Dur_1h00, 3500),
    FlightJson("S7",  "Z", "X", "2025-12-11", Clock(8, 0),  Clock(9, 0),  Dur_1h00, 3000),
    FlightJson("S8",  "Z", "W", "2025-12-11", Clock(7, 0),  Clock(7, 30), Dur_0h30, 3000),
    FlightJson("S9",  "W", "Z", "2025-12-11", Clock(7, 30), Clock(8, 0),  Dur_0h30, 3000),
    FlightJson("S10", "W", "Y", "2025-12-11", Clock(9, 0),  Clock(10, 0), Dur_90m,  3000),
    FlightJson("S11", "X", "X", "2025-12-11", Clock(6, 0),  Clock(6, 0),  Dur_0h00, 3000),
    FlightJson("S12", "Z", "Z", "2025-12-11", Clock(7, 0),  Clock(7, 0),  Dur_bad,  3000),
    FlightJson("S13", "X", "Z", "2025-12-11", Clock(6, 0),  Clock(9, 30), Dur_0h30, 3000),
    FlightJson("S14", "X", "Y", "2025-12-12", Clock(6, 0),  Clock(7, 0),  Dur_1h00, 3000)
>>

\* the contents of data["flights"] in the stores of the model
StoreLists ==
    { PickSeq(StorePool, S, 1) :
        S \in { T \in SUBSET (1..Len(StorePool)) : Cardinality(T) <= MaxFlights } }

---------------------------------------------------------------------------
(* JsonDB::find_smart_routes (jsondb.cpp:80-190) *)

\* pq.push({0, src, {}}) and the empty locals
SmartStart(q) ==
    [pq      |-> PqPush(<<>>, [total_minutes |-> 0,
                               current_node  |-> q.src,
                               history       |-> <<>>]),
     results |-> <<>>,
     visits  |-> [n \in Nodes |-> 0],
     pc      |-> "loop"]

RouteSegmentsFromSrc(history, prev_code) ==
    [i \in 1..Len(history) |->
        [airline   |-> history[i].airline,
         flight_id |-> history[i].flight_id,
         from      |-> prev_code,
         to        |-> history[i].destination,
         dep       |-> history[i].dep_time,
         arr       |-> history[i].arr_time,
         price     |-> history[i].price]]

RECURSIVE RouteSegments(_, _)
\* the segments of a route: every "from" is the "to" before it, the first
\* one is src (jsondb.cpp:108-128)
RouteSegments(history, prev_code) ==
    IF history = <<>> THEN <<>>
    ELSE LET h == Head(history)
         IN  <<[airline   |-> h.airline,
                flight_id |-> h.flight_id,
                from      |-> prev_code,
                to        |-> h.destination,
                dep       |-> h.dep_time,
                arr       |-> h.arr_time,
                price     |-> h.price]>>
             \o RouteSegments(Tail(history), h.destination)

RECURSIVE SumPrice(_)
SumPrice(segments) ==
    IF segments = <<>> THEN 0 ELSE Head(segments).price + SumPrice(Tail(segments))

RouteStopsAreLegs(top, src) ==
    LET segments == RouteSegments(top.history, src)
    IN  [total_time  |-> top.total_minutes,
         stops       |-> Len(top.history),
         segments    |-> segments,
         total_price |-> SumPrice(segments)]

\* the route built from the popped state (jsondb.cpp:104-135)
Route(top, src) ==
    LET segments == RouteSegments(top.history, src)
    IN  [total_time  |-> top.total_minutes,
         stops       |-> Len(top.history) - 1,
         segments    |-> segments,
         total_price |-> SumPrice(segments)]

DateMatchesAny(edge, req_date) == TRUE

\* FILTER 1: DATE CHECK
DateMatches(edge, req_date) == edge.date = req_date

\* FILTER 2: CYCLE CHECK: away from src, with a leg taken, a leg back to
\* src is a cycle; nothing else is
SmartCycle(top, u, edge, src) ==
    IF u = src THEN FALSE
    ELSE top.history # <<>> /\ edge.destination = src

\* FILTER 3: CONNECTION TIME: string comparison of dep_time and prev_arr
SmartTimeOk(top, edge) ==
    IF top.history # <<>>
    THEN ~StrLess(edge.dep_time, top.history[Len(top.history)].arr_time)
    ELSE TRUE

SmartNextStateFlatLayover(top, edge) ==
    [total_minutes |-> top.total_minutes + edge.weight_minutes + 60,
     current_node  |-> edge.destination,
     history       |-> Append(top.history, edge)]

\* the pushed state, with 60 minutes of layover on a connection
SmartNextState(top, edge) ==
    [total_minutes |-> top.total_minutes + edge.weight_minutes
                       + (IF top.history = <<>> THEN 0 ELSE 60),
     current_node  |-> edge.destination,
     history       |-> Append(top.history, edge)]

RECURSIVE SmartPushNeighbors(_, _, _, _)
\* the for loop over adj_list[u] (jsondb.cpp:147-185)
SmartPushNeighbors(pq, top, edges, q) ==
    IF edges = <<>> THEN pq
    ELSE LET edge == Head(edges)
             ok   == /\ DateMatches(edge, q.req_date)
                     /\ ~SmartCycle(top, top.current_node, edge, q.src)
                     /\ SmartTimeOk(top, edge)
         IN  SmartPushNeighbors(
                 IF ok THEN PqPush(pq, SmartNextState(top, edge)) ELSE pq,
                 top, Tail(edges), q)

\* adj_list.find(u) != adj_list.end() ? adj_list[u] : nothing
SmartBucket(adj, u) == IF u \in DOMAIN adj THEN adj[u] ELSE <<>>

\* while (!pq.empty() && results.size() < k)
SmartLoopCond(s) == s.pq # <<>> /\ SizeLT(Len(s.results), query.k)

VisitCapOff(count, k) == FALSE

\* visits[u] >= k
VisitCapReached(count, k) == count >= k

\* TARGET REACHED: the popped state becomes a route
SmartGoalStep(s, t) ==
    /\ algo = "smart"
    /\ s.pc = "loop"
    /\ SmartLoopCond(s)
    /\ LET top == PqTop(s.pq)
       IN  /\ GoalReached(top.current_node, query.dst)
           /\ t = [s EXCEPT !.pq      = PqPop(s.pq),
                            !.results = Append(s.results, Route(top, query.src))]

\* visits[u] >= k: the popped state is dropped
SmartPruneStep(s, t) ==
    /\ algo = "smart"
    /\ s.pc = "loop"
    /\ SmartLoopCond(s)
    /\ LET top == PqTop(s.pq)
           u   == top.current_node
       IN  /\ ~GoalReached(u, query.dst)
           /\ VisitCapReached(s.visits[u], query.k)
           /\ t = [s EXCEPT !.pq = PqPop(s.pq)]

\* EXPLORE FLIGHTS: visits[u]++ and every admissible edge is pushed
SmartExpandStep(s, t) ==
    /\ algo = "smart"
    /\ s.pc = "loop"
    /\ SmartLoopCond(s)
    /\ LET top == PqTop(s.pq)
           u   == top.current_node
       IN  /\ ~GoalReached(u, query.dst)
           /\ ~VisitCapReached(s.visits[u], query.k)
           /\ \E edges \in BucketOrders(SmartBucket(adj_list, u)) :
                 t = [s EXCEPT !.pq = SmartPushNeighbors(PqPop(s.pq), top, edges, query),
                               !.visits[u] = @ + 1]

\* the loop condition fails: return results (jsondb.cpp:189)
SmartReturnStep(s, t) ==
    /\ algo = "smart"
    /\ s.pc = "loop"
    /\ ~SmartLoopCond(s)
    /\ t = [s EXCEPT !.pc = "done"]

\* the calls find_smart_routes("X", dst, "2025-12-11", k)
SmartQueries ==
    [src : {"X"}, dst : {"X", "Y", "Z"}, req_date : {"2025-12-11"}, k : KValues]

\* the graph is built from the store and find_smart_routes is called
SmartCall ==
    /\ run.pc = "idle"
    /\ algo' = "smart"
    /\ query' \in SmartQueries
    /\ adjList' = adjList
    /\ adj_list' \in { build_graph(EmptyAdj, flights) : flights \in StoreLists }
    /\ run' = SmartStart(query')
    /\ twin' = run'
    /\ UNCHANGED others

SmartGoal   == SmartGoalStep(run, run')   /\ UNCHANGED <<algo, query, adjList, adj_list, twin, others>>
SmartPrune  == SmartPruneStep(run, run')  /\ UNCHANGED <<algo, query, adjList, adj_list, twin, others>>
SmartExpand ==
    /\ SmartExpandStep(run, run')
    /\ adj_list' = AfterFind(adj_list, PqTop(run.pq).current_node)
    /\ UNCHANGED <<algo, query, adjList, twin, others>>
SmartReturn == SmartReturnStep(run, run') /\ UNCHANGED <<algo, query, adjList, adj_list, twin, others>>

---------------------------------------------------------------------------
(* The specifications *)

\* nothing is built and no search has been called
Init ==
    /\ algo = "none"
    /\ query = [k |-> 0]
    /\ adjList = EmptyAdj
    /\ adj_list = EmptyAdj
    /\ run = [pq |-> <<>>, results |-> <<>>, pc |-> "idle"]
    /\ twin = run
    /\ data = [airports |-> <<>>, flights |-> <<>>]
    /\ file = data
    /\ db_mutex = "free"
    /\ threads = [t \in Threads |-> [pc |-> "idle"]]
    /\ parse = [pc |-> "idle"]

Next ==
    \/ TopKCall \/ SmartCall
    \/ TopKGoal \/ TopKPrune \/ TopKExpand \/ TopKReturn
    \/ SmartGoal \/ SmartPrune \/ SmartExpand \/ SmartReturn

Spec == Init /\ [][Next]_vars

\* one step of a call, or none once it has returned
CallStep(s, t) ==
    \/ TopKGoalStep(s, t) \/ TopKPruneStep(s, t)
    \/ TopKExpandStep(s, t) \/ TopKReturnStep(s, t)
    \/ SmartGoalStep(s, t) \/ SmartPruneStep(s, t)
    \/ SmartExpandStep(s, t) \/ SmartReturnStep(s, t)
    \/ (s.pc = "done" /\ t = s)

\* two calls with the same arguments on the same graph, side by side
NextTwin ==
    \/ TopKCall
    \/ SmartCall
    \/ /\ CallStep(run, run')
       /\ CallStep(twin, twin')
       /\ UNCHANGED <<algo, query, adjList, adj_list, others>>

TwinSpec == Init /\ [][NextTwin]_vars

---------------------------------------------------------------------------
(* Calls of JsonDB::parse_duration_string on the strings of at most        *)
(* MaxDurLen characters over DurChars.                                     *)

DurChars == {"0", "1", "h", "m", " ", "x"}

DurStrings == UNION { [1..n -> DurChars] : n \in 0..MaxDurLen }

\* the function is entered with the argument dur
ParseCall ==
    /\ parse.pc = "idle"
    /\ \E dur \in DurStrings : parse' = [pc |-> "called", dur |-> dur]
    /\ UNCHANGED <<algo, query, adjList, adj_list, run, twin, data, file, db_mutex, threads>>

\* the whole body: the value returned, from the try block or the handler
ParseReturn ==
    /\ parse.pc = "called"
    /\ parse' = [pc |-> "returned", dur |-> parse.dur,
                                  ret |-> parse_duration_string(parse.dur)]
    /\ UNCHANGED <<algo, query, adjList, adj_list, run, twin, data, file, db_mutex, threads>>

NextParse == ParseCall \/ ParseReturn

ParseSpec == Init /\ [][NextParse]_vars

---------------------------------------------------------------------------
(* The flight store behind the server (jsondb.cpp, main.cpp): the global   *)
(* JsonDB is constructed, then the request threads of the multithreaded    *)
(* server call its operations.  An operation is a sequence of steps: the   *)
(* lock_guard is taken, the body runs one loop iteration or one write at   *)
(* a time, the lock_guard is released on return.                           *)

\* a record of data["airports"]
AirportJson(code, city) == [code |-> code, city |-> city]

\* the flights requests add to the store
DbFlights == <<StorePool[1], StorePool[3]>>

\* the store after JsonDB::JsonDB: read from the file, or seeded
DbStores ==
    { [airports |-> <<AirportJson("X", "c1"), AirportJson("Y", "c1"),
                      AirportJson("Z", "c1")>>,
       flights  |-> fs] :
        fs \in { <<>>, <<DbFlights[1]>>, <<DbFlights[1], DbFlights[2]>> } }

\* the bodies of update requests: the items of new_data in key order
UpdateBodies ==
    { << <<"date", "2025-12-12">>, <<"departure", Clock(9, 0)>> >>,
      << <<"price", 1>> >> }

DbQueries ==
    [src : {"X"}, dst : {"X", "Y"}, req_date : {"2025-12-11"}, k : {-1, 1}]

\* the calls the routes of main.cpp make
Requests ==
    { [op |-> "add_flight", fl |-> DbFlights[i]] : i \in 1..Len(DbFlights) }
    \cup { [op |-> "delete_flight", id |-> id] : id \in {"S1", "S3", "S9"} }
    \cup { [op |-> "update_flight", id |-> id, new_data |-> b] :
              id \in {"S1", "S9"}, b \in UpdateBodies }
    \cup { [op |-> "search_flights_by_date", date |-> "2025-12-11"] }
    \cup { [op |-> "find_smart_routes", q |-> q] : q \in DbQueries }

\* the index of the first flight of the store with this id, or 0
FlightIndex(flights, id) ==
    IF \E i \in 1..Len(flights) : flights[i].id = id
    THEN CHOOSE i \in 1..Len(flights) :
            flights[i].id = id /\ \A j \in 1..(i - 1) : flights[j].id # id
    ELSE 0

\* the index of the first airport of the store with this code, or 0
AirportIndex(airports, code) ==
    IF \E i \in 1..Len(airports) : airports[i].code = code
    THEN CHOOSE i \in 1..Len(airports) :
            airports[i].code = code /\ \A j \in 1..(i - 1) : airports[j].code # code
    ELSE 0

RECURSIVE MergeItems(_, _)
\* for (auto& el : new_data.items()) apt[el.key()] = el.value()
MergeItems(rec, items) ==
    IF items = <<>> THEN rec
    ELSE MergeItems([k \in DOMAIN rec \cup {Head(items)[1]} |->
                        IF k = Head(items)[1] THEN Head(items)[2] ELSE rec[k]],
                    Tail(items))

\* arr.erase(it)
Erase(flights, i) == SubSeq(flights, 1, i - 1) \o SubSeq(flights, i + 1, Len(flights))

NoCall == [pq |-> <<>>, results |-> <<>>, pc |-> "idle"]

MutexIgnored(m) == TRUE

\* std::lock_guard<std::mutex> lock(db_mutex) returns once the mutex is free
MutexFree(m) == m = "free"

\* a route handler calls an operation of db
DbRequest(t) ==
    /\ threads[t].pc = "idle"
    /\ \E r \in Requests : threads' = [threads EXCEPT ![t] = [pc |-> "lock", req |-> r]]
    /\ UNCHANGED <<algo, query, adjList, adj_list, run, twin, data, file, db_mutex, parse>>

\* the lock_guard at the top of every operation; the locals of the body
\* are set up, seen is the store as the body finds it
DbLock(t) ==
    /\ threads[t].pc = "lock"
    /\ MutexFree(db_mutex)
    /\ db_mutex' = t
    /\ LET r == threads[t].req
       IN  /\ threads' = [threads EXCEPT ![t] =
                  [pc |-> "body", req |-> r, seen |-> data, seen_adj |-> adj_list,
                   seen_file |-> file, saved |-> FALSE,
                   at |-> 0, pending |-> <<>>, result |-> <<>>]]
           /\ IF r.op = "find_smart_routes"
              THEN /\ algo' = "smart"
                   /\ query' = r.q
                   /\ run' = SmartStart(r.q)
                   /\ twin' = run'
              ELSE UNCHANGED <<algo, query, run, twin>>
    /\ UNCHANGED <<adjList, adj_list, data, file, parse>>

DbAddFlightPushFirst(t) ==
    /\ threads[t].pc = "body"
    /\ threads[t].req.op = "add_flight"
    /\ LET fl == threads[t].req.fl
       IN  /\ data' = [data EXCEPT !.flights = Append(@, fl)]
           /\ IF FlightIndex(data.flights, fl.id) # 0
              THEN /\ file' = file
                   /\ threads' = [threads EXCEPT ![t].pc = "unlock", ![t].result = FALSE]
              ELSE /\ file' = data'
                   /\ threads' = [threads EXCEPT ![t].pc = "unlock", ![t].result = TRUE,
                                                  ![t].saved = TRUE]
    /\ UNCHANGED <<algo, query, adjList, adj_list, run, twin, db_mutex, parse>>

\* JsonDB::add_flight: the duplicate check, push_back and save
DbAddFlight(t) ==
    /\ threads[t].pc = "body"
    /\ threads[t].req.op = "add_flight"
    /\ LET fl == threads[t].req.fl
       IN  IF FlightIndex(data.flights, fl.id) # 0
           THEN /\ data' = data
                /\ file' = file
                /\ threads' = [threads EXCEPT ![t].pc = "unlock", ![t].result = FALSE]
           ELSE /\ data' = [data EXCEPT !.flights = Append(@, fl)]
                /\ file' = data'
                /\ threads' = [threads EXCEPT ![t].pc = "unlock", ![t].result = TRUE,
                                               ![t].saved = TRUE]
    /\ UNCHANGED <<algo, query, adjList, adj_list, run, twin, db_mutex, parse>>

\* JsonDB::add_airport: the duplicate check, push_back and save
DbAddAirport(t) ==
    /\ threads[t].pc = "body"
    /\ threads[t].req.op = "add_airport"
    /\ LET apt == threads[t].req.apt
       IN  IF AirportIndex(data.airports, apt.code) # 0
           THEN /\ data' = data
                /\ file' = file
                /\ threads' = [threads EXCEPT ![t].pc = "unlock", ![t].result = FALSE]
           ELSE /\ data' = [data EXCEPT !.airports = Append(@, apt)]
                /\ file' = data'
                /\ threads' = [threads EXCEPT ![t].pc = "unlock", ![t].result = TRUE,
                                               ![t].saved = TRUE]
    /\ UNCHANGED <<algo, query, adjList, adj_list, run, twin, db_mutex, parse>>

\* JsonDB::delete_airport: the first airport with the code is erased
DbDeleteAirport(t) ==
    /\ threads[t].pc = "body"
    /\ threads[t].req.op = "delete_airport"
    /\ LET i == AirportIndex(data.airports, threads[t].req.code)
       IN  IF i = 0
           THEN /\ data' = data
                /\ file' = file
                /\ threads' = [threads EXCEPT ![t].pc = "unlock", ![t].result = FALSE]
           ELSE /\ data' = [data EXCEPT !.airports = Erase(@, i)]
                /\ file' = data'
                /\ threads' = [threads EXCEPT ![t].pc = "unlock", ![t].result = TRUE,
                                               ![t].saved = TRUE]
    /\ UNCHANGED <<algo, query, adjList, adj_list, run, twin, db_mutex, parse>>

\* JsonDB::update_airport: the items of new_data are merged into the first
\* airport with the code, then save
DbUpdateAirport(t) ==
    /\ threads[t].pc = "body"
    /\ threads[t].req.op = "update_airport"
    /\ LET i == AirportIndex(data.airports, threads[t].req.code)
       IN  IF i = 0
           THEN /\ data' = data
                /\ file' = file
                /\ threads' = [threads EXCEPT ![t].pc = "unlock", ![t].result = FALSE]
           ELSE /\ data' = [data EXCEPT !.airports[i] =
                                MergeItems(@, threads[t].req.new_data)]
                /\ file' = data'
                /\ threads' = [threads EXCEPT ![t].pc = "unlock", ![t].result = TRUE,
                                               ![t].saved = TRUE]
    /\ UNCHANGED <<algo, query, adjList, adj_list, run, twin, db_mutex, parse>>

\* JsonDB::delete_flight: the first flight with the id is erased
DbDeleteFlight(t) ==
    /\ threads[t].pc = "body"
    /\ threads[t].req.op = "delete_flight"
    /\ LET i == FlightIndex(data.flights, threads[t].req.id)
       IN  IF i = 0
           THEN /\ data' = data
                /\ file' = file
                /\ threads' = [threads EXCEPT ![t].pc = "unlock", ![t].result = FALSE]
           ELSE /\ data' = [data EXCEPT !.flights = Erase(@, i)]
                /\ file' = data'
                /\ threads' = [threads EXCEPT ![t].pc = "unlock", ![t].result = TRUE,
                                               ![t].saved = TRUE]
    /\ UNCHANGED <<algo, query, adjList, adj_list, run, twin, db_mutex, parse>>

\* JsonDB::update_flight: the loop that looks for the flight
DbUpdateFind(t) ==
    /\ threads[t].pc = "body"
    /\ threads[t].req.op = "update_flight"
    /\ LET i == FlightIndex(data.flights, threads[t].req.id)
       IN  IF i = 0
           THEN threads' = [threads EXCEPT ![t].pc = "unlock", ![t].result = FALSE]
           ELSE threads' = [threads EXCEPT ![t].pc = "apply", ![t].at = i,
                                           ![t].pending = threads[t].req.new_data]
    /\ UNCHANGED <<algo, query, adjList, adj_list, run, twin, data, file, db_mutex, parse>>

\* JsonDB::update_flight: fl[el.key()] = el.value() for one item of
\* new_data; after the last one, save and return true
DbUpdateApply(t) ==
    /\ threads[t].pc = "apply"
    /\ LET el == Head(threads[t].pending)
           i  == threads[t].at
       IN  /\ data' = IF i <= Len(data.flights)
                      THEN [data EXCEPT !.flights[i][el[1]] = el[2]]
                      ELSE data
           /\ file' = IF Len(threads[t].pending) = 1 THEN data' ELSE file
           /\ threads' = [threads EXCEPT
                  ![t].pending = Tail(@),
                  ![t].pc      = IF Len(threads[t].pending) = 1 THEN "unlock" ELSE "apply",
                  ![t].saved   = Len(threads[t].pending) = 1,
                  ![t].result  = TRUE]
    /\ UNCHANGED <<algo, query, adjList, adj_list, run, twin, db_mutex, parse>>

\* JsonDB::search_flights_by_date: one iteration of the loop over
\* data["flights"], or its end
DbReadStep(t) ==
    /\ threads[t].pc = "body"
    /\ threads[t].req.op = "search_flights_by_date"
    /\ LET i == threads[t].at + 1
       IN  IF i > Len(data.flights)
           THEN threads' = [threads EXCEPT ![t].pc = "unlock"]
           ELSE threads' = [threads EXCEPT
                   ![t].at     = i,
                   ![t].result = IF data.flights[i].date = threads[t].req.date
                                 THEN Append(@, data.flights[i]) ELSE @]
    /\ UNCHANGED <<algo, query, adjList, adj_list, run, twin, data, file, db_mutex, parse>>

\* JsonDB::find_smart_routes has returned: its results go to the caller
DbSearchReturn(t) ==
    /\ threads[t].pc = "body"
    /\ threads[t].req.op = "find_smart_routes"
    /\ run.pc = "done"
    /\ threads' = [threads EXCEPT ![t].pc = "unlock", ![t].result = run.results]
    /\ UNCHANGED <<algo, query, adjList, adj_list, run, twin, data, file, db_mutex, parse>>

\* the operation returns and its lock_guard releases the mutex
DbUnlock(t) ==
    /\ threads[t].pc = "unlock"
    /\ db_mutex' = "free"
    /\ threads' = [threads EXCEPT ![t] = [pc |-> "idle"]]
    /\ IF threads[t].req.op = "find_smart_routes"
       THEN algo' = "none" /\ query' = [k |-> 0] /\ run' = NoCall /\ twin' = NoCall
       ELSE UNCHANGED <<algo, query, run, twin>>
    /\ UNCHANGED <<adjList, adj_list, data, file, parse>>

\* the state once the global db is constructed: the store is loaded, the
\* adjacency index has not been built
DbInit ==
    /\ algo = "none"
    /\ query = [k |-> 0]
    /\ adjList = EmptyAdj
    /\ adj_list = EmptyAdj
    /\ run = NoCall
    /\ twin = NoCall
    /\ data \in DbStores
    /\ file = data
    /\ db_mutex = "free"
    /\ threads = [t \in Threads |-> [pc |-> "idle"]]
    /\ parse = [pc |-> "idle"]

DbNext ==
    \/ \E t \in Threads :
          \/ DbRequest(t) \/ DbLock(t) \/ DbUnlock(t)
          \/ DbAddFlight(t) \/ DbDeleteFlight(t)
          \/ DbUpdateFind(t) \/ DbUpdateApply(t)
          \/ DbReadStep(t) \/ DbSearchReturn(t)
    \/ SmartGoal \/ SmartPrune \/ SmartExpand \/ SmartReturn

DbSpec == DbInit /\ [][DbNext]_vars

---------------------------------------------------------------------------
(* The mutations of the store, called one after another: the admin routes  *)
(* of main.cpp for airports and flights, with update bodies that change    *)
(* any field, "id" included.                                               *)

\* the bodies of flight update requests
StoreUpdateBodies == UpdateBodies \cup { << <<"id", "S3">> >> }

\* the bodies of airport update requests
AirportBodies == { <<>>, << <<"city", "c2">> >> }

\* the mutating calls the admin routes of main.cpp make
StoreRequests ==
    { [op |-> "add_flight", fl |-> DbFlights[i]] : i \in 1..Len(DbFlights) }
    \cup { [op |-> "delete_flight", id |-> id] : id \in {"S1", "S3", "S9"} }
    \cup { [op |-> "update_flight", id |-> id, new_data |-> b] :
              id \in {"S1", "S9"}, b \in StoreUpdateBodies }
    \cup { [op |-> "add_airport", apt |-> AirportJson(c, "c1")] : c \in {"X", "W"} }
    \cup { [op |-> "delete_airport", code |-> c] : c \in {"W", "Q"} }
    \cup { [op |-> "update_airport", code |-> c, new_data |-> b] :
              c \in {"W", "Q"}, b \in AirportBodies }

\* the thread that serves the admin requests
Admin == "t1"

\* an admin route calls a mutation of db; the store holds at most
\* MaxStore flights when a flight is sent for adding
StoreRequest(t) ==
    /\ threads[t].pc = "idle"
    /\ \E r \in StoreRequests :
          /\ r.op = "add_flight" => Len(data.flights) < MaxStore
          /\ threads' = [threads EXCEPT ![t] = [pc |-> "lock", req |-> r]]
    /\ UNCHANGED <<algo, query, adjList, adj_list, run, twin, data, file, db_mutex, parse>>

StoreNext ==
    \/ StoreRequest(Admin) \/ DbLock(Admin) \/ DbUnlock(Admin)
    \/ DbAddFlight(Admin) \/ DbDeleteFlight(Admin)
    \/ DbUpdateFind(Admin) \/ DbUpdateApply(Admin)
    \/ DbAddAirport(Admin) \/ DbDeleteAirport(Admin) \/ DbUpdateAirport(Admin)

StoreSpec == DbInit /\ [][StoreNext]_vars

---------------------------------------------------------------------------
(* What the claims read *)

Source == IF algo = "topk" THEN query.startNode ELSE query.src

Target == IF algo = "topk" THEN query.endNode ELSE query.dst

\* the call has returned
Returned == run.pc = "done"

\* the weight a result is ordered by
ResultWeight(r) == IF algo = "topk" THEN r.totalCost ELSE r.total_time

\* the legs of a result
ResultLegs(r) == IF algo = "topk" THEN r.routeDescription ELSE r.segments

\* the nodes an itinerary visits: the source, then the arrival of each leg
NodeSeq(legs) == <<Source>> \o [i \in 1..Len(legs) |-> legs[i].to]

NoRepeat(seq) == \A i, j \in 1..Len(seq) : i # j => seq[i] # seq[j]

\* every leg of the graph of getTopKPaths
AllFlights ==
    UNION { { adjList[u][i] : i \in 1..Len(adjList[u]) } : u \in DOMAIN adjList }

\* the leg of the graph a routeDescription entry names
FlightOf(id) == CHOOSE f \in AllFlights : f.id = id

\* every edge of the graph of find_smart_routes
AllEdges ==
    UNION { { adj_list[u][i] : i \in 1..Len(adj_list[u]) } : u \in DOMAIN adj_list }

\* the edge of the graph a segment names
EdgeOf(flight_id) == CHOOSE e \in AllEdges : e.flight_id = flight_id

\* the nodes one leg away from u
GraphSucc(u) ==
    IF algo = "topk"
    THEN { f.to : f \in { g \in AllFlights : g.from = u } }
    ELSE IF u \in DOMAIN adj_list
         THEN { adj_list[u][i].destination : i \in 1..Len(adj_list[u]) }
         ELSE {}

RECURSIVE ReachableFrom(_)
\* the nodes some chain of legs of the graph leads to from a node of S
ReachableFrom(S) ==
    LET T == S \cup UNION { GraphSucc(u) : u \in S }
    IN  IF T = S THEN S ELSE ReachableFrom(T)

\* no chain of legs leads from the source to the destination
Unreachable == Target \notin ReachableFrom({Source})

---------------------------------------------------------------------------
(* C1 *)

\* C1: for k >= 1 a search never holds more than k results, so the list it
\* returns has at most k entries (both searches).
C1_AtMostK == query.k >= 1 => Len(run.results) <= query.k

\* getTopKPaths returned k results with states left on the frontier
C1_Witness ==
    /\ algo = "topk" /\ run.pc = "done" /\ query.k >= 1
    /\ Len(run.results) = query.k /\ run.pq # <<>>

---------------------------------------------------------------------------
(* C2 *)

\* C2: the results are in non-decreasing order of the chosen weight
\* (totalCost, total_time); every leg weight of the model is >= 0.
C2_Ascending ==
    \A i, j \in 1..Len(run.results) :
        i < j => ResultWeight(run.results[i]) <= ResultWeight(run.results[j])

\* a cheaper itinerary of more legs was returned before a dearer direct one
C2_Witness ==
    /\ run.pc = "done" /\ Len(run.results) >= 2
    /\ ResultWeight(run.results[1]) < ResultWeight(run.results[2])
    /\ Len(ResultLegs(run.results[1])) > Len(ResultLegs(run.results[2]))

---------------------------------------------------------------------------
(* C3 *)

\* C3: in getTopKPaths no result and no state on the frontier visits a node
\* twice: startNode, leg1.to, leg2.to, ... are pairwise different.
C3_LoopFree ==
    algo = "topk" =>
        /\ \A i \in 1..Len(run.results) :
              NoRepeat(NodeSeq(run.results[i].routeDescription))
        /\ \A i \in 1..Len(run.pq) :
              /\ NoRepeat(NodeSeq(run.pq[i].pathHistory))
              /\ run.pq[i].visitedNodes = NodeSeq(run.pq[i].pathHistory)

\* a result of three legs on a graph that holds a leg back to the source
C3_Witness ==
    /\ algo = "topk" /\ run.pc = "done"
    /\ \E i \in 1..Len(run.results) : Len(run.results[i].routeDescription) >= 3
    /\ \E f \in AllFlights : f.to = query.startNode

---------------------------------------------------------------------------
(* C4 *)

\* C4: in find_smart_routes no returned route visits a node twice: src,
\* segment1.to, segment2.to, ... are pairwise different.
C4_SmartLoopFree ==
    algo = "smart" =>
        \A i \in 1..Len(run.results) : NoRepeat(NodeSeq(run.results[i].segments))

---------------------------------------------------------------------------
(* C5 *)

\* C5: in getTopKPaths every leg after the first of a result (and of a
\* frontier state) departs no earlier than the arrival of the leg before it
\* plus minLayoverMins.
C5_Layover ==
    algo = "topk" =>
        \A legs \in { run.results[i].routeDescription : i \in 1..Len(run.results) }
                    \cup { run.pq[i].pathHistory : i \in 1..Len(run.pq) } :
            \A i \in 2..Len(legs) :
                FlightOf(legs[i].id).depTime
                    >= FlightOf(legs[i - 1].id).arrTime + query.minLayoverMins

\* a two-leg result whose first leg departs before -1 + minLayoverMins (it
\* is exempt), on a graph that holds a continuation with too short a layover
C5_Witness ==
    /\ algo = "topk" /\ run.pc = "done" /\ query.minLayoverMins >= 2
    /\ \E i \in 1..Len(run.results) :
          LET legs == run.results[i].routeDescription
          IN  /\ Len(legs) = 2
              /\ FlightOf(legs[1].id).depTime < query.minLayoverMins - 1
              /\ \E g \in AllFlights :
                    /\ g.from = legs[1].to /\ g.to = query.endNode
                    /\ g.depTime >= FlightOf(legs[1].id).arrTime
                    /\ g.depTime < FlightOf(legs[1].id).arrTime + query.minLayoverMins

---------------------------------------------------------------------------
(* C6 *)

\* C6: in find_smart_routes every leg of every returned route, and of every
\* frontier state, has the date req_date.
C6_DateFilter ==
    algo = "smart" =>
        /\ \A i \in 1..Len(run.results) :
              \A j \in 1..Len(run.results[i].segments) :
                  EdgeOf(run.results[i].segments[j].flight_id).date = query.req_date
        /\ \A i \in 1..Len(run.pq) :
              \A j \in 1..Len(run.pq[i].history) :
                  run.pq[i].history[j].date = query.req_date

\* a route of two legs from a store that holds a flight to the destination
\* on another date
C6_Witness ==
    /\ algo = "smart" /\ run.pc = "done"
    /\ \E i \in 1..Len(run.results) : Len(run.results[i].segments) >= 2
    /\ \E e \in AllEdges : e.date # query.req_date /\ e.destination = query.dst

---------------------------------------------------------------------------
(* C7 *)

\* the longest bucket of the graph
MaxDegree ==
    LET lens == { Len(adjList[u]) : u \in DOMAIN adjList }
                \cup { Len(adj_list[u]) : u \in DOMAIN adj_list } \cup {0}
    IN  CHOOSE m \in lens : \A n \in lens : n <= m

RECURSIVE SubtreeBound(_)
\* a bound on the states a loop-free state of d legs stands for: itself and
\* its descendants; a state of Cardinality(Nodes) - 1 legs has none
SubtreeBound(d) ==
    IF d >= Cardinality(Nodes) - 1 THEN 1
    ELSE 1 + MaxDegree * SubtreeBound(d + 1)

RECURSIVE SumSubtrees(_)
SumSubtrees(pq) ==
    IF pq = <<>> THEN 0
    ELSE SubtreeBound(Len(Head(pq).pathHistory)) + SumSubtrees(Tail(pq))

RECURSIVE SumBudget(_, _)
\* the expansions the visit cap still allows, over the nodes of S
SumBudget(S, visits) ==
    IF S = {} THEN 0
    ELSE LET u == CHOOSE n \in S : TRUE
             left == IF query.k > visits[u] THEN query.k - visits[u] ELSE 0
         IN  left + SumBudget(S \ {u}, visits)

\* the work a call has left: for getTopKPaths the states the frontier
\* stands for, for find_smart_routes the expansions the cap allows and
\* the length of the frontier; one more while the call has not returned
Variant ==
    (IF run.pc = "loop" THEN 1 ELSE 0)
    + (IF algo = "topk" THEN SumSubtrees(run.pq)
       ELSE IF algo = "smart"
            THEN SumBudget(Nodes, run.visits) * (MaxDegree + 1) + Len(run.pq)
            ELSE 0)

\* C7: every call returns: every iteration of the while loop lowers the
\* natural number Variant, so only finitely many follow one another, and
\* the call returns with an empty frontier or with k results, with the
\* empty list when no chain of legs reaches the destination.
C7_Terminates ==
    /\ [](Variant >= 0)
    /\ [][run.pc # "idle" =>
            /\ Variant' < Variant
            /\ run'.pc = "done" =>
                  /\ run'.pq = <<>> \/ SizeGE(Len(run'.results), query.k)
                  /\ Unreachable' => run'.results = <<>>]_vars

\* a call returned the empty list on a graph with the cycle X -> Z -> X
\* after expanding Z, the destination being out of reach
C7_Witness ==
    /\ run.pc = "done" /\ Unreachable /\ run.results = <<>>
    /\ "Z" \in GraphSucc("X") /\ "X" \in GraphSucc("Z")
    /\ (IF algo = "topk" THEN run.visitCounts["Z"] ELSE run.visits["Z"]) >= 1

---------------------------------------------------------------------------
(* C8 *)

---------------------------------------------------------------------------
(* C9 *)

\* the graph holds exactly a direct leg, and the two legs first and second
\* through mid, whose prices sum to less than the direct price and whose
\* connection has the minimum layover
ScenarioA(direct, first, second, mid) ==
    /\ mid \notin {query.startNode, query.endNode}
    /\ query.startNode # query.endNode
    /\ DOMAIN adjList = {query.startNode, mid}
    /\ AllFlights = {direct, first, second}
    /\ Len(adjList[query.startNode]) = 2 /\ Len(adjList[mid]) = 1
    /\ direct.from = query.startNode /\ direct.to = query.endNode
    /\ first.from = query.startNode /\ first.to = mid
    /\ second.from = mid /\ second.to = query.endNode
    /\ first.cost + second.cost < direct.cost
    /\ second.depTime >= first.arrTime + query.minLayoverMins

\* C9: on the graph of Scenario A, getTopKPaths with k = 2 returns exactly
\* two results: the two-leg itinerary, of weight the sum of its prices, and
\* then the direct one.
C9_ScenarioA ==
    (algo = "topk" /\ run.pc = "done" /\ query.k = 2) =>
        \A direct, first, second \in AllFlights : \A mid \in Nodes :
            ScenarioA(direct, first, second, mid) =>
                run.results =
                    << [totalCost        |-> first.cost + second.cost,
                        arrivalTime      |-> second.arrTime,
                        routeDescription |->
                            << [id |-> first.id, from |-> query.startNode, to |-> mid],
                               [id |-> second.id, from |-> mid, to |-> query.endNode] >>],
                       [totalCost        |-> direct.cost,
                        arrivalTime      |-> direct.arrTime,
                        routeDescription |->
                            << [id |-> direct.id, from |-> query.startNode,
                                to |-> query.endNode] >>] >>

\* a call with k = 2 returned on a graph of Scenario A with a positive
\* minimum layover
C9_Witness ==
    /\ algo = "topk" /\ run.pc = "done" /\ query.k = 2
    /\ query.minLayoverMins >= 1
    /\ \E direct, first, second \in AllFlights : \E mid \in Nodes :
          ScenarioA(direct, first, second, mid)

---------------------------------------------------------------------------
(* C10 *)

\* the visit counters of the call
Counters == IF algo = "topk" THEN run.visitCounts ELSE run.visits

\* C10: a call with source = destination and k >= 1 returns exactly one
\* result, of no leg and of weight 0, and expands no node.
C10_ZeroLeg ==
    (run.pc = "done" /\ query.k >= 1 /\ Source = Target) =>
        /\ Len(run.results) = 1
        /\ ResultLegs(run.results[1]) = <<>>
        /\ ResultWeight(run.results[1]) = 0
        /\ \A n \in Nodes : Counters[n] = 0

\* such a call returned on a graph with legs leaving the source, one of
\* them a self loop
C10_Witness ==
    /\ run.pc = "done" /\ query.k >= 2 /\ Source = Target
    /\ Source \in GraphSucc(Source)
    /\ GraphSucc(Source) # {Source}

---------------------------------------------------------------------------
(* C11 *)

\* the nodes one eligible leg away from u: for find_smart_routes a leg is
\* eligible when its date is the requested one
EligibleSucc(u) ==
    IF algo = "topk" THEN GraphSucc(u)
    ELSE IF u \in DOMAIN adj_list
         THEN { adj_list[u][i].destination :
                  i \in { j \in 1..Len(adj_list[u]) :
                            adj_list[u][j].date = query.req_date } }
         ELSE {}

RECURSIVE EligibleFrom(_)
EligibleFrom(S) ==
    LET T == S \cup UNION { EligibleSucc(u) : u \in S }
    IN  IF T = S THEN S ELSE EligibleFrom(T)

\* the source has no bucket in the adjacency map of the call
UnknownSource ==
    IF algo = "topk" THEN Source \notin DOMAIN adjList
    ELSE Source \notin DOMAIN adj_list

\* C11: a call whose source differs from its destination, and whose source
\* has no outgoing leg or from whose source no chain of eligible legs leads
\* to the destination, returns the empty list.
C11_EmptyWhenNoRoute ==
    (Returned /\ Source # Target
              /\ (UnknownSource \/ Target \notin EligibleFrom({Source})))
        => run.results = <<>>

\* a call returned from a source without bucket, on a graph with legs into
\* the destination
C11_Witness ==
    /\ Returned /\ Source # Target /\ UnknownSource /\ query.k >= 1
    /\ run.results = <<>>
    /\ \E u \in Nodes : Target \in GraphSucc(u)

---------------------------------------------------------------------------
(* C12 *)

\* C12: a call with k <= 0 returns no result.
C12_InvalidKRejected ==
    (Returned /\ query.k <= 0) => run.results = <<>>

---------------------------------------------------------------------------
(* C14 *)

\* the adjacency map the call searches
Adjacency == IF algo = "topk" THEN adjList ELSE adj_list

\* C14: no step of a search changes an adjacency map: from the call to its
\* return adjList and adj_list keep their keys and their buckets.
C14_AdjacencyUnchanged ==
    [][run.pc = "loop" => (adjList' = adjList /\ adj_list' = adj_list)]_vars

\* a call returned after expanding a node that has no bucket
C14_Witness ==
    /\ Returned
    /\ \E n \in Nodes : Counters[n] >= 1 /\ n \notin DOMAIN Adjacency
    /\ DOMAIN Adjacency # {}
    /\ \A n \in DOMAIN Adjacency : Adjacency[n] # <<>>

---------------------------------------------------------------------------
(* C17 *)

\* C17: the stops of every route of find_smart_routes is the number of its
\* legs minus one.
C17_Stops ==
    algo = "smart" =>
        \A i \in 1..Len(run.results) :
            run.results[i].stops = Len(run.results[i].segments) - 1

\* a route of one leg and a route of several legs were returned
C17_Witness ==
    /\ algo = "smart" /\ Returned
    /\ \E i \in 1..Len(run.results) : Len(run.results[i].segments) >= 2
    /\ \E i \in 1..Len(run.results) : run.results[i].stops = 0

---------------------------------------------------------------------------
(* C18 *)

\* C18: the segments of every route of find_smart_routes chain: the first
\* leaves the source, each later one leaves where the one before arrived,
\* and the last one arrives at the destination.
C18_Chain ==
    algo = "smart" =>
        \A i \in 1..Len(run.results) :
            LET segs == run.results[i].segments
            IN  segs # <<>> =>
                    /\ segs[1].from = query.src
                    /\ \A j \in 2..Len(segs) : segs[j].from = segs[j - 1].to
                    /\ segs[Len(segs)].to = query.dst

\* a route of three segments was returned
C18_Witness ==
    /\ algo = "smart" /\ Returned
    /\ \E i \in 1..Len(run.results) : Len(run.results[i].segments) >= 3

---------------------------------------------------------------------------
(* C19 *)

RECURSIVE SumWeightMinutes(_)
\* the duration minutes of the legs of a route
SumWeightMinutes(segments) ==
    IF segments = <<>> THEN 0
    ELSE EdgeOf(Head(segments).flight_id).weight_minutes
         + SumWeightMinutes(Tail(segments))

\* C19, as stated: the total_time of every route is the sum of the
\* weight_minutes of its legs.
C19_TotalTimeIsSum ==
    algo = "smart" =>
        \A i \in 1..Len(run.results) :
            run.results[i].total_time = SumWeightMinutes(run.results[i].segments)

\* C19, amended: the total_time of every route is the sum of the
\* weight_minutes of its legs plus 60 minutes for every leg after the first.
C19_TotalTimeWithLayover ==
    algo = "smart" =>
        \A i \in 1..Len(run.results) :
            LET segs == run.results[i].segments
            IN  run.results[i].total_time =
                    SumWeightMinutes(segs)
                    + (IF segs = <<>> THEN 0 ELSE 60 * (Len(segs) - 1))

\* a route of one leg and a route of several legs were returned
C19_Witness ==
    /\ algo = "smart" /\ Returned
    /\ \E i \in 1..Len(run.results) : Len(run.results[i].segments) = 1
    /\ \E i \in 1..Len(run.results) : Len(run.results[i].segments) >= 2

---------------------------------------------------------------------------
(* C20 *)

RECURSIVE SumCost(_)
\* the prices of the legs of an itinerary
SumCost(legs) ==
    IF legs = <<>> THEN 0
    ELSE FlightOf(Head(legs).id).cost + SumCost(Tail(legs))

\* C20: the totalCost of every result of getTopKPaths is the sum of the
\* costs of its legs, and its arrivalTime the arrTime of its last leg, or
\* -1 when it has no leg.
C20_CostAndArrival ==
    algo = "topk" =>
        \A i \in 1..Len(run.results) :
            LET legs == run.results[i].routeDescription
            IN  /\ run.results[i].totalCost = SumCost(legs)
                /\ run.results[i].arrivalTime =
                       IF legs = <<>> THEN -1
                       ELSE FlightOf(legs[Len(legs)].id).arrTime

\* a result of three legs of positive price was returned
C20_Witness ==
    /\ algo = "topk" /\ Returned
    /\ \E i \in 1..Len(run.results) :
          LET legs == run.results[i].routeDescription
          IN  /\ Len(legs) >= 3
              /\ \A j \in 1..2 : FlightOf(legs[j].id).cost > 0

---------------------------------------------------------------------------
(* C16 *)

AllDigits(str) == str # <<>> /\ \A i \in 1..Len(str) : IsDigit(str[i])

RECURSIVE Decimal(_)
\* the number a string of digits writes
Decimal(str) ==
    IF str = <<>> THEN 0
    ELSE 10 * Decimal(SubSeq(str, 1, Len(str) - 1)) + DigitVal(str[Len(str)])

\* the hour digits of a string of the form "Xh Ym", when it has that form
HourDigits(dur) ==
    { n \in 1..Len(dur) :
        /\ Len(dur) >= n + 4
        /\ AllDigits(SubSeq(dur, 1, n))
        /\ dur[n + 1] = "h" /\ dur[n + 2] = " "
        /\ AllDigits(SubSeq(dur, n + 3, Len(dur) - 1))
        /\ dur[Len(dur)] = "m" }

\* C16: parse_duration_string returns hours * 60 + minutes for a string
\* of the form "Xh Ym" and 60 for every other string.
C16_ParseDuration ==
    parse.pc = "returned" =>
        IF HourDigits(parse.dur) # {}
        THEN LET n == CHOOSE i \in HourDigits(parse.dur) : TRUE
             IN  parse.ret = Decimal(SubSeq(parse.dur, 1, n)) * 60
                             + Decimal(SubSeq(parse.dur, n + 3, Len(parse.dur) - 1))
        ELSE parse.ret = 60

---------------------------------------------------------------------------
(* C13 *)

\* C13: whenever no operation is running, adj_list holds exactly the
\* flights of data["flights"], grouped by from_code in collection order.
C13_IndexMatchesStore ==
    db_mutex = "free" => adj_list = build_graph(EmptyAdj, data.flights)

---------------------------------------------------------------------------
(* C15 *)

\* the thread is inside the body of an operation
InBody(t) == threads[t].pc \in {"body", "apply", "unlock"}

\* the operation of the thread only reads the store
Reads(t) == threads[t].req.op \in {"search_flights_by_date", "find_smart_routes"}

\* C15: a thread inside the body of an operation holds db_mutex, so no two
\* threads are inside a body together, and the store and the index a
\* search or a read works on stay as it found them until it returns.
C15_MutualExclusion ==
    \A t \in Threads :
        InBody(t) =>
            /\ db_mutex = t
            /\ \A u \in Threads \ {t} : ~InBody(u)
            /\ Reads(t) => (data = threads[t].seen /\ adj_list = threads[t].seen_adj)

\* a read is half way through the store while an update waits for the mutex
C15_Witness ==
    \E t, u \in Threads :
        /\ threads[t].pc = "body"
        /\ threads[t].req.op = "search_flights_by_date"
        /\ threads[t].at = 1 /\ Len(data.flights) = 2
        /\ threads[u].pc = "lock"
        /\ threads[u].req.op = "update_flight"

---------------------------------------------------------------------------
\* C21: in getTopKPaths a state popped at a non-destination node whose pop
\* counter has already reached k + 5 is discarded: the step removes it from
\* the frontier, pushes no child and adds no result.  The counter counts
\* every pop at the node, so a node has its legs enumerated at most k + 5
\* times in one search.
C21_RevisitCap ==
    [][(algo = "topk" /\ run.pc = "loop" /\ run.pq # <<>>) =>
         LET u == PqTop(run.pq).currentAirport
         IN  (u # query.endNode /\ run.visitCounts[u] >= query.k + RevisitMargin) =>
                 /\ run'.pq = PqPop(run.pq)
                 /\ run'.results = run.results
                 /\ run'.visitCounts[u] = run.visitCounts[u] + 1]_vars

\* a finished search with k >= 1 in which some node was popped more than
\* k + 5 times, the last of them discarded
C21_Witness ==
    /\ algo = "topk"
    /\ Returned
    /\ query.k >= 1
    /\ \E n \in DOMAIN run.visitCounts : run.visitCounts[n] > query.k + RevisitMargin

---------------------------------------------------------------------------
\* the legs taken by a state of the frontier, as a result would list them
FrontierLegs(s) ==
    IF algo = "topk" THEN s.pathHistory ELSE RouteSegments(s.history, query.src)

\* the itineraries a search holds: its results and its frontier
Itineraries ==
    { ResultLegs(run.results[i]) : i \in 1..Len(run.results) }
      \cup { FrontierLegs(run.pq[i]) : i \in 1..Len(run.pq) }

\* C22: a state at the destination is never expanded (both searches): no
\* itinerary of the results or of the frontier has a leg that departs from
\* the destination, so the destination is never an intermediate stop and
\* appears only as the node the last leg arrives at.
C22_DestinationFinal ==
    algo \in {"topk", "smart"} =>
        \A legs \in Itineraries :
            /\ \A i \in 1..Len(legs) : legs[i].from # Target
            /\ \A i \in 1..(Len(legs) - 1) : legs[i].to # Target

\* getTopKPaths returned a connecting itinerary although the graph has a leg
\* out of the destination that a state finalized there could have taken
C22_Witness ==
    /\ algo = "topk"
    /\ Returned
    /\ \E i \in 1..Len(run.results) : Len(run.results[i].routeDescription) >= 2
    /\ \E f \in AllFlights :
          /\ f.from = Target
          /\ f.to \notin {Source, Target}
          /\ \E i \in 1..Len(run.results) :
                f.depTime >= run.results[i].arrivalTime + query.minLayoverMins

---------------------------------------------------------------------------
\* legs is a path of the graph of getTopKPaths from startNode to last: every
\* leg is a leg of the bucket of the node it departs from, the first departs
\* from startNode, each later one from where the previous one arrived, and
\* the last arrives at last
RealPath(legs, last) ==
    /\ legs = <<>> => last = query.startNode
    /\ legs # <<>> => (legs[1].from = query.startNode /\ legs[Len(legs)].to = last)
    /\ \A i \in 2..Len(legs) : legs[i].from = legs[i - 1].to
    /\ \A i \in 1..Len(legs) :
          /\ legs[i].from \in DOMAIN adjList
          /\ \E j \in 1..Len(adjList[legs[i].from]) :
                LET f == adjList[legs[i].from][j]
                IN  f.id = legs[i].id /\ f.from = legs[i].from /\ f.to = legs[i].to

\* C25: every result of getTopKPaths is a path of the adjacency list from
\* startNode to endNode, and every state on the frontier carries a path of
\* the adjacency list from startNode to its currentAirport.
C25_RealPaths ==
    algo = "topk" =>
        /\ \A i \in 1..Len(run.results) :
              RealPath(run.results[i].routeDescription, query.endNode)
        /\ \A i \in 1..Len(run.pq) :
              RealPath(run.pq[i].pathHistory, run.pq[i].currentAirport)

\* a two-leg result is held while a state with legs waits on the frontier
C25_Witness ==
    /\ algo = "topk"
    /\ query.k >= 1
    /\ \E i \in 1..Len(run.results) : Len(run.results[i].routeDescription) >= 2
    /\ \E i \in 1..Len(run.pq) : Len(run.pq[i].pathHistory) >= 1

---------------------------------------------------------------------------
RECURSIVE FeasibleCosts(_, _, _, _)
\* the total prices of the loop-free itineraries that lead from u to
\* endNode, for a traveller who reached u at minute arrival (-1: has not
\* flown yet) at price cost through the nodes of visited, each connection
\* leaving minLayoverMins or more after the previous arrival
FeasibleCosts(u, arrival, visited, cost) ==
    IF u = query.endNode THEN {cost}
    ELSE UNION { FeasibleCosts(f.to, f.arrTime, visited \cup {f.to}, cost + f.cost) :
                   f \in { g \in AllFlights :
                             /\ g.from = u
                             /\ g.to \notin visited
                             /\ \/ arrival = -1
                                \/ g.depTime >= arrival + query.minLayoverMins } }

\* the least member of a non-empty set of numbers
Least(S) == CHOOSE x \in S : \A y \in S : x <= y

\* C26: when getTopKPaths has returned for k >= 1 and some loop-free
\* itinerary from startNode to endNode respects the minimum layover, the
\* result list is non-empty and its first result has the least total price
\* of all such itineraries.
C26_CheapestFirst ==
    (algo = "topk" /\ Returned /\ query.k >= 1) =>
        LET costs == FeasibleCosts(query.startNode, -1, {query.startNode}, 0)
        IN  costs # {} =>
               /\ run.results # <<>>
               /\ run.results[1].totalCost = Least(costs)

---------------------------------------------------------------------------
RECURSIVE ChainReaches(_, _, _)
\* some chain of edges of the index, on the requested date and none of
\* them in used, leads from u to dst, its first edge departing no earlier
\* than the arrival of the edge in prev (prev is empty at the source) and
\* every later one no earlier than the arrival of the one before it
ChainReaches(u, prev, used) ==
    \/ u = query.dst
    \/ /\ u \in DOMAIN adj_list
       /\ \E i \in 1..Len(adj_list[u]) :
             LET e == adj_list[u][i]
             IN  /\ e \notin used
                 /\ e.date = query.req_date
                 /\ prev = <<>> \/ ~StrLess(e.dep_time, prev[1].arr_time)
                 /\ ChainReaches(e.destination, <<e>>, used \cup {e})

\* C27: when find_smart_routes has returned for k >= 1 and the index holds
\* a chain of legs on the requested date from src to dst whose connections
\* each depart no earlier than the previous arrival, the returned list is
\* non-empty.
C27_FindsRoute ==
    (algo = "smart" /\ Returned /\ query.k >= 1 /\ ChainReaches(query.src, <<>>, {}))
        => run.results # <<>>

---------------------------------------------------------------------------
\* C23: between the calls of add_flight, delete_flight and update_flight,
\* on a store that started with unique ids, no two flights of
\* data["flights"] have the same id.
C23_UniqueIds ==
    db_mutex = "free" =>
        \A i, j \in 1..Len(data.flights) :
            i # j => data.flights[i].id # data.flights[j].id

---------------------------------------------------------------------------
\* the records of after are those of before but for the record at i, which
\* holds the values of items under their keys and its old values elsewhere
MergedAt(before, after, i, items) ==
    /\ Len(after) = Len(before)
    /\ \A j \in 1..Len(before) : j # i => after[j] = before[j]
    /\ \A key \in DOMAIN after[i] :
          IF \E n \in 1..Len(items) : items[n][1] = key
          THEN \E n \in 1..Len(items) : items[n][1] = key /\ after[i][key] = items[n][2]
          ELSE key \in DOMAIN before[i] /\ after[i][key] = before[i][key]

\* a mutation that returned true changed the store as its contract says
\* and nothing else
ChangedAsAsked(r, before, after) ==
    CASE r.op = "add_flight" ->
            after = [before EXCEPT !.flights = Append(@, r.fl)]
      [] r.op = "add_airport" ->
            after = [before EXCEPT !.airports = Append(@, r.apt)]
      [] r.op = "delete_flight" ->
            \E i \in 1..Len(before.flights) :
                /\ before.flights[i].id = r.id
                /\ after = [before EXCEPT !.flights = Erase(@, i)]
      [] r.op = "delete_airport" ->
            \E i \in 1..Len(before.airports) :
                /\ before.airports[i].code = r.code
                /\ after = [before EXCEPT !.airports = Erase(@, i)]
      [] r.op = "update_flight" ->
            /\ after.airports = before.airports
            /\ \E i \in 1..Len(before.flights) :
                  /\ before.flights[i].id = r.id
                  /\ MergedAt(before.flights, after.flights, i, r.new_data)
      [] r.op = "update_airport" ->
            /\ after.flights = before.flights
            /\ \E i \in 1..Len(before.airports) :
                  /\ before.airports[i].code = r.code
                  /\ MergedAt(before.airports, after.airports, i, r.new_data)

\* the key of the request is the id or code of a record the store held
\* when the operation began
KeyPresent(r, before) ==
    CASE r.op = "add_flight"     -> \E i \in 1..Len(before.flights) : before.flights[i].id = r.fl.id
      [] r.op = "delete_flight"  -> \E i \in 1..Len(before.flights) : before.flights[i].id = r.id
      [] r.op = "update_flight"  -> \E i \in 1..Len(before.flights) : before.flights[i].id = r.id
      [] r.op = "add_airport"    -> \E i \in 1..Len(before.airports) : before.airports[i].code = r.apt.code
      [] r.op = "delete_airport" -> \E i \in 1..Len(before.airports) : before.airports[i].code = r.code
      [] r.op = "update_airport" -> \E i \in 1..Len(before.airports) : before.airports[i].code = r.code

\* C24: when a mutation of the store is about to return, it returns false
\* exactly when an add met an existing id or code or a delete or update
\* met none; a mutation that returns false has left data as it found it
\* and has not saved; one that returns true has appended, erased or merged
\* exactly one record and has saved the store.
C24_FailedMutationsUnchanged ==
    \A t \in Threads :
        threads[t].pc = "unlock" =>
            LET r      == threads[t].req
                before == threads[t].seen
                fails  == IF r.op \in {"add_flight", "add_airport"}
                          THEN KeyPresent(r, before) ELSE ~KeyPresent(r, before)
            IN  /\ threads[t].result = ~fails
                /\ fails  => /\ data = before
                             /\ ~threads[t].saved
                             /\ file = threads[t].seen_file
                /\ ~fails => /\ ChangedAsAsked(r, before, data)
                             /\ threads[t].saved
                             /\ file = data

\* an add_flight that met its id in the store is about to return false
C24_Witness ==
    \E t \in Threads :
        /\ threads[t].pc = "unlock"
        /\ threads[t].req.op = "add_flight"
        /\ threads[t].result = FALSE
        /\ KeyPresent(threads[t].req, threads[t].seen)
        /\ Len(data.flights) >= 2

=============================================================================
